---- MODULE Spec2Model ----
(***************************************************************************)
(* Model of post.py: the Vitec -> Webflow listing synchronisation.         *)
(*                                                                         *)
(* Python values are modelled as follows.  A string is a sequence of       *)
(* one-character strings; the tokens Absent (key missing), Null (None) and *)
(* Num (a JSON number) are one-element sequences whose element is longer   *)
(* than one character, so they never collide with a real string.           *)
(***************************************************************************)
EXTENDS Integers, Sequences, FiniteSets, TLC

VARIABLES
    mode,            \* "auto" (main), "manual" (main_manual_trigger), "client" (one bare client call)
    pc,              \* position of the single control flow
    listings,        \* housingCooperativeses of the fetched collection
    processed_count, \* process_estates: processed_count
    success_count,   \* process_estates: success_count
    summary,         \* the final "Finished processing" report, once printed
    outcomes,        \* per collection entry, in order: how its iteration ended
    attempted,       \* ids handed to sync_estate_data, in order
    estate,          \* estate_data of the listing being synced
    association_data,\* association_data of the listing being synced
    webflow_data,    \* the record prepare_webflow_data built for the pending request
    slug,            \* the slug update_webflow_item looks up
    items,           \* the target collection on the Webflow side
    http,            \* the make_webflow_request call in progress
    trace,           \* per-call record of responses and backoff waits (client runs only)
    sessions,        \* number of sessions created and not yet closed
    calls,           \* make_webflow_request calls issued for the current listing
    matched          \* id of the item that carried the record's slug when its upsert began (0: none)

vars == <<mode, pc, listings, processed_count, success_count, summary, outcomes,
          attempted, estate, association_data, webflow_data, slug, items, http,
          trace, sessions, calls, matched>>

----------------------------------------------------------------------------
(* Bounds of the model *)

MaxListings == 2   \* length of the fetched collection
MaxItems == 3      \* size of the target collection

----------------------------------------------------------------------------
(* Python values *)

Absent == <<"ABSENT">>
Null == <<"NULL">>
Num == <<"NUM">>

IsStr(v) == \A i \in DOMAIN v : v[i] \in {"a", "A", "b", " ", "-", "n", "o", "i", "d", "s", "l", "u", "g"}

\* Python truthiness of a value that is a string, None or a number (non-zero)
Truthy(v) == v # Absent /\ v # Null /\ v # <<>>

LowerChar(c) == IF c = "A" THEN "a" ELSE c

\* str.lower()
Lower(s) == [i \in DOMAIN s |-> LowerChar(s[i])]

\* str.replace(" ", "-")
ReplaceSpace(s) == [i \in DOMAIN s |-> IF s[i] = " " THEN "-" ELSE s[i]]

RECURSIVE LStrip(_)
LStrip(s) == IF s # <<>> /\ Head(s) = " " THEN LStrip(Tail(s)) ELSE s

RECURSIVE RStrip(_)
RStrip(s) == IF s # <<>> /\ s[Len(s)] = " " THEN RStrip(SubSeq(s, 1, Len(s) - 1)) ELSE s

\* str.strip()
Strip(s) == RStrip(LStrip(s))

----------------------------------------------------------------------------
(* The Webflow side: the items of the target collection *)

\* 'limit': 100 of the item-list request
limit == 100

Min(a, b) == IF a < b THEN a ELSE b

\* The body of a 200 answer to GET .../items?limit=100&offset=0
Page(its) == SubSeq(its, 1, Min(limit, Len(its)))

\* A POST the server accepted appends an item carrying the posted slug
ServerCreate(its, data) == Append(its, [id |-> Len(its) + 1, slug |-> data.slug])

\* A PATCH the server accepted overwrites the addressed item's fields
ServerUpdate(its, id, data) ==
    [i \in DOMAIN its |-> IF its[i].id = id THEN [its[i] EXCEPT !.slug = data.slug] ELSE its[i]]

----------------------------------------------------------------------------
(* make_webflow_request *)

max_retries == 5

Methods == {"GET", "POST", "PATCH"}

\* What session.request does on one attempt: a status code, or an exception.
\* "200" is a 200 whose body parses as JSON; "201" stands for a 2xx status
\* other than 200; "500" for a status outside 2xx other than 404 and 429;
\* "Exception" for any other exception, a 200 with an unparseable body included.
Outcomes == {"200", "201", "404", "429", "500", "Timeout", "ConnectionError", "Exception"}

\* Outcomes with which the server has carried the request out
Accepted == {"200", "201"}

None == [none |-> TRUE, items |-> <<>>]
Json(body) == [none |-> FALSE, items |-> body]

Idle == [st |-> "idle", method |-> "GET", target |-> 0, params |-> FALSE,
         q |-> 0, attempt |-> 0, result |-> None]

\* The state of a call on entry, before the for loop
NewCall(method, target, params) ==
    [st |-> "attempting", method |-> method, target |-> target, params |-> params,
     q |-> 0, attempt |-> 0, result |-> None]

\* RateLimitWait without the progressive part
RateLimitWaitFlat(attempt) == 60

\* wait_time of the 429 branch
RateLimitWait(attempt) == 60 + (attempt * 30)

\* wait_time of the non-200, Timeout and generic Exception branches
ErrorWait(attempt) == 5 * (attempt + 1)

\* wait_time of the ConnectionError branch
ConnectionWait(attempt) == 10 * (attempt + 1)

\* BackoffWait with the rate-limit branch going on without sleeping
BackoffWaitNoRateLimit(o, attempt) ==
    CASE o \in {"500", "201", "Timeout", "Exception"} ->
            IF attempt < max_retries - 1 THEN ErrorWait(attempt) ELSE 0
      [] o = "ConnectionError" ->
            IF attempt < max_retries - 1 THEN ConnectionWait(attempt) ELSE 0
      [] OTHER -> 0

\* 0 stands for "no time.sleep(wait_time) on this attempt"
BackoffWait(o, attempt) ==
    CASE o = "429" -> RateLimitWait(attempt)
      [] o \in {"500", "201", "Timeout", "Exception"} ->
            IF attempt < max_retries - 1 THEN ErrorWait(attempt) ELSE 0
      [] o = "ConnectionError" ->
            IF attempt < max_retries - 1 THEN ConnectionWait(attempt) ELSE 0
      [] OTHER -> 0

\* Returns with the 429 branch never running out of attempts
ReturnsRateLimitUnbounded(o, attempt) ==
    CASE o = "404" -> TRUE
      [] o = "200" -> TRUE
      [] o = "429" -> FALSE
      [] OTHER -> ~(attempt < max_retries - 1)

\* Returns with a 404 retried like any other error status
ReturnsNotFoundRetried(o, attempt) ==
    CASE o = "200" -> TRUE
      [] o = "429" -> attempt + 1 >= max_retries
      [] OTHER -> ~(attempt < max_retries - 1)

\* Returns giving up one attempt early on an error status
ReturnsOneEarly(o, attempt) ==
    CASE o = "404" -> TRUE
      [] o = "200" -> TRUE
      [] o = "429" -> attempt + 1 >= max_retries
      [] OTHER -> ~(attempt < max_retries - 2)

\* Whether the attempt ends the call (a return statement, or the loop running out)
Returns(o, attempt) ==
    CASE o = "404" -> TRUE
      [] o = "200" -> TRUE
      [] o = "429" -> attempt + 1 >= max_retries
      [] OTHER -> ~(attempt < max_retries - 1)

\* The value returned when the attempt ends the call
ReturnValue(o, body) == IF o = "200" THEN Json(body) ELSE None

\* url = f"{url}?{query_params}" runs on every attempt of a GET with params
NextQ(h) == IF h.method = "GET" /\ h.params THEN h.q + 1 ELSE h.q

\* One pass through the body of the for loop
AttemptStep(h, o, body) ==
    [h EXCEPT !.q = NextQ(h),
              !.attempt = h.attempt + 1,
              !.st = IF Returns(o, h.attempt) THEN "returned" ELSE "attempting",
              !.result = IF Returns(o, h.attempt) THEN ReturnValue(o, body) ELSE None]

\* What the request does to the collection when the server carries it out
ServerEffect(h, o) ==
    IF o \notin Accepted THEN items
    ELSE CASE h.method = "POST" -> ServerCreate(items, webflow_data)
           [] h.method = "PATCH" -> ServerUpdate(items, h.target, webflow_data)
           [] OTHER -> items

Record(o, w) ==
    IF trace.on
    THEN [trace EXCEPT !.resps = Append(@, o),
                       !.waits = IF w > 0 THEN Append(@, w) ELSE @]
    ELSE trace

Attempt ==
    /\ http.st = "attempting"
    /\ \E o \in Outcomes :
         /\ (http.method = "POST" /\ o \in Accepted) => Len(items) < MaxItems
         /\ http' = AttemptStep(http, o, Page(items))
         /\ items' = ServerEffect(http, o)
         /\ trace' = Record(o, BackoffWait(o, http.attempt))
    /\ UNCHANGED <<mode, pc, listings, processed_count, success_count, summary,
                   outcomes, attempted, estate, association_data, webflow_data,
                   slug, sessions, calls, matched>>

----------------------------------------------------------------------------
(* Source records.  A nested group is "absent" (key missing), "null" or a   *)
(* "dict"; a scalar is "absent", a "number" or a non-numeric "text".        *)

NoId == <<"n", "o", "-", "i", "d">>
NoSlug == <<"n", "o", "-", "s", "l", "u", "g">>

\* estate_data as fetch_housing_cooperative returns it
EstateRecord(id, status, assoc, base, living, floor) ==
    [kind |-> "dict", estateId |-> id, status |-> status, associationId |-> assoc,
     baseInformation |-> base, livingSpace |-> living, floor |-> floor]

\* A value that is no non-empty dict: None, an empty dict, or a list
NotEstate(kind) ==
    [kind |-> kind, estateId |-> Absent, status |-> "absent", associationId |-> FALSE,
     baseInformation |-> "absent", livingSpace |-> "absent", floor |-> "absent"]

NoEstate == NotEstate("none")

\* association_data: {} (association_data or {}) or the fetched record
EmptyAssociation == [kind |-> "empty", name |-> "absent", descriptions |-> "absent", transferFee |-> "absent"]

AssociationRecord(name, descriptions, fee) ==
    [kind |-> "dict", name |-> name, descriptions |-> descriptions, transferFee |-> fee]

Raised == [raised |-> TRUE, name |-> "", transfer_fee |-> "", parking |-> ""]

\* The default record reads the local variable economy, which is assigned only
\* further down: evaluating it raises UnboundLocalError.
AssociationDefaults == Raised

\* descriptions.get(...) on None raises AttributeError
AssociationDetails(a) ==
    IF a.descriptions = "null" THEN Raised
    ELSE [raised |-> FALSE,
          name |-> IF a.name = "absent" THEN "N/A" ELSE "name",
          transfer_fee |-> IF a.transferFee = "absent" THEN "0" ELSE "fee",
          parking |-> IF a.descriptions = "absent" THEN "N/A" ELSE "parking"]

get_details_from_association_data(a) ==
    IF a.kind = "empty" THEN AssociationDefaults ELSE AssociationDetails(a)

\* estate_id = estate.get('estateId', 'no-id')
PreparedEstateId(e) == IF e.estateId = Absent THEN NoId ELSE e.estateId

\* slug = estate_id.lower().replace(" ", "-") if estate_id else "no-slug"
SlugOf(estate_id) == IF Truthy(estate_id) THEN ReplaceSpace(Lower(estate_id)) ELSE NoSlug

NoData == [none |-> TRUE, slug |-> <<>>, estateid |-> <<>>, livingspace |-> "",
           floor |-> "", associationname |-> "", upplatelseavgift |-> "", parking |-> ""]

\* The statements of the try block that raise; the except clause turns each
\* into "return None".  .get on a null group raises AttributeError, .lower()
\* on a number raises AttributeError, float() of a text raises ValueError.
PrepareRaises(e, a) ==
    \/ get_details_from_association_data(a).raised
    \/ e.baseInformation = "null"
    \/ (Truthy(PreparedEstateId(e)) /\ ~IsStr(PreparedEstateId(e)))
    \/ (e.baseInformation = "dict" /\ e.livingSpace = "text")

\* floor has its own try/except (ValueError, TypeError): a text becomes 'N/A'
FloorFormatted(e) == IF e.floor = "number" THEN "floor" ELSE "N/A"

\* base_info.get('livingSpace', '0'): the default '0' is truthy and formats as "0 m2"
LivingSpaceFormatted(e) ==
    IF e.baseInformation = "dict" /\ e.livingSpace = "number" THEN "living m2" ELSE "0 m2"

prepare_webflow_data(e, a) ==
    IF e.kind # "dict" THEN NoData
    ELSE IF PrepareRaises(e, a) THEN NoData
    ELSE LET d == get_details_from_association_data(a)
         IN [none |-> FALSE,
             slug |-> SlugOf(PreparedEstateId(e)),
             estateid |-> PreparedEstateId(e),
             livingspace |-> LivingSpaceFormatted(e),
             floor |-> FloorFormatted(e),
             associationname |-> d.name,
             upplatelseavgift |-> d.transfer_fee,
             parking |-> d.parking]

----------------------------------------------------------------------------
(* find_webflow_item_by_slug, update_webflow_item, create_webflow_item *)

\* webflow_slug and webflow_slug.strip().lower() == slug.strip().lower()
SlugMatches(webflow_slug, s) ==
    /\ webflow_slug # <<>>
    /\ Lower(Strip(webflow_slug)) = Lower(Strip(s))

\* The for loop over the returned items: the id of the first match, 0 for None
RECURSIVE FindId(_, _)
FindId(page, s) ==
    IF page = <<>> THEN 0
    ELSE IF SlugMatches(Head(page).slug, s) THEN Head(page).id
    ELSE FindId(Tail(page), s)

\* What find_webflow_item_by_slug returns for the client's result
FoundItem(result, s) == IF result.none THEN 0 ELSE FindId(result.items, s)

\* estate_id = estate.get('estateId', ''); the slug update_webflow_item looks up
LookupSlug(e) == SlugOf(IF e.estateId = Absent THEN <<>> ELSE e.estateId)

Call(method, target) == [method |-> method, target |-> target, live |-> method = "POST"]

\* SyncReturn with a failed listing ending the run (an exception escaping the loop)
SyncReturnAborting(tag) ==
    /\ http' = Idle
    /\ estate' = NoEstate
    /\ association_data' = EmptyAssociation
    /\ webflow_data' = NoData
    /\ slug' = <<>>
    /\ outcomes' = Append(outcomes, tag)
    /\ success_count' = IF mode = "auto" /\ tag = "synced" THEN success_count + 1 ELSE success_count
    /\ pc' = IF mode = "auto" /\ tag # "failed" THEN "loop" ELSE "done"

\* sync_estate_data / manual_post_estate return to their caller: the locals
\* go out of scope and process_estates counts the result
SyncReturn(tag) ==
    /\ http' = Idle
    /\ estate' = NoEstate
    /\ association_data' = EmptyAssociation
    /\ webflow_data' = NoData
    /\ slug' = <<>>
    /\ outcomes' = Append(outcomes, tag)
    /\ success_count' = IF mode = "auto" /\ tag = "synced" THEN success_count + 1 ELSE success_count
    /\ pc' = IF mode = "auto" THEN "loop" ELSE "done"

\* update_webflow_item up to the lookup request
update_webflow_item ==
    /\ pc = "update"
    /\ LET data == prepare_webflow_data(estate, association_data) IN
         IF data.none
         THEN \* return False; the caller goes on to create_webflow_item
              /\ pc' = "create"
              /\ UNCHANGED <<webflow_data, slug, http, sessions, calls, matched>>
         ELSE /\ webflow_data' = data
              /\ slug' = LookupSlug(estate)
              /\ sessions' = sessions + 1
              /\ http' = NewCall("GET", 0, TRUE)
              /\ calls' = Append(calls, Call("GET", 0))
              /\ matched' = FindId(items, data.slug)
              /\ pc' = "lookup"
    /\ UNCHANGED <<mode, listings, processed_count, success_count, summary, outcomes,
                   attempted, estate, association_data, items, trace>>

\* find_webflow_item_by_slug returns; update_webflow_item goes on to the PATCH
find_webflow_item_by_slug ==
    /\ pc = "lookup"
    /\ http.st = "returned"
    /\ \E raised \in BOOLEAN :
       \* a malformed body makes the scan raise: except returns None, finally closes
       LET existing_item_id == IF raised THEN 0 ELSE FoundItem(http.result, slug) IN
         IF existing_item_id = 0
         THEN /\ pc' = "create"
              /\ http' = Idle
              /\ sessions' = sessions - 1
              /\ UNCHANGED calls
         ELSE /\ pc' = "patch"
              /\ http' = NewCall("PATCH", existing_item_id, FALSE)
              /\ sessions' = (sessions - 1) + 1
              /\ calls' = Append(calls, Call("PATCH", existing_item_id))
    /\ UNCHANGED <<mode, listings, processed_count, success_count, summary, outcomes,
                   attempted, estate, association_data, webflow_data, slug, items,
                   trace, matched>>

\* update_return without the finally clause: a failed PATCH leaves the session open
update_return_leaking ==
    /\ pc = "patch"
    /\ http.st = "returned"
    /\ IF ~http.result.none
       THEN /\ sessions' = sessions - 1
            /\ SyncReturn("synced")
       ELSE /\ pc' = "create"
            /\ http' = Idle
            /\ UNCHANGED <<sessions, success_count, outcomes, estate, association_data,
                           webflow_data, slug>>
    /\ UNCHANGED <<mode, listings, processed_count, summary, attempted, items, trace,
                   calls, matched>>

\* The PATCH returns: True ends the sync, False sends the caller to create
update_return ==
    /\ pc = "patch"
    /\ http.st = "returned"
    /\ sessions' = sessions - 1
    /\ IF ~http.result.none
       THEN SyncReturn("synced")
       ELSE /\ pc' = "create"
            /\ http' = Idle
            /\ UNCHANGED <<success_count, outcomes, estate, association_data,
                           webflow_data, slug>>
    /\ UNCHANGED <<mode, listings, processed_count, summary, attempted, items, trace,
                   calls, matched>>

\* create_webflow_item up to the POST
create_webflow_item ==
    /\ pc = "create"
    /\ LET data == prepare_webflow_data(estate, association_data) IN
         IF data.none
         THEN /\ SyncReturn("failed")
              /\ UNCHANGED <<sessions, calls>>
         ELSE /\ webflow_data' = data
              /\ sessions' = sessions + 1
              /\ http' = NewCall("POST", 0, FALSE)
              /\ calls' = Append(calls, Call("POST", 0))
              /\ pc' = "post"
              /\ UNCHANGED <<success_count, outcomes, estate, association_data, slug>>
    /\ UNCHANGED <<mode, listings, processed_count, summary, attempted, items, trace,
                   matched>>

\* The POST returns
create_return ==
    /\ pc = "post"
    /\ http.st = "returned"
    /\ sessions' = sessions - 1
    /\ SyncReturn(IF ~http.result.none THEN "synced" ELSE "failed")
    /\ UNCHANGED <<mode, listings, processed_count, summary, attempted, items, trace,
                   calls, matched>>

----------------------------------------------------------------------------
(* fetch_housing_cooperative, fetch_association_details, sync_estate_data *)

\* assignment.status.id: the strings "1", "2", "3", another string ("9"),
\* the number 3 ("n3"), or no status at all ("absent")
StatusIds == {"1", "2", "3", "9", "n3", "absent"}

\* The estateId field of the detail record: the requested id, null, or missing
EstateIdsFor(id) == {id, Null, Absent}

\* What fetch_housing_cooperative may return for a listing id
FetchResults(id) ==
    {NoEstate} \cup
    {EstateRecord(eid, st, assoc, base, "number", "number") :
        eid \in EstateIdsFor(id), st \in StatusIds, assoc \in BOOLEAN, base \in {"dict", "null"}}

FetchedAssociation == AssociationRecord("name", "dict", "number")

\* association_data or {}: the fetch runs only with an association id and may fail
AssociationResults(e) ==
    IF e.associationId THEN {FetchedAssociation, EmptyAssociation} ELSE {EmptyAssociation}

\* Skips without the final elif: an unknown status falls through
SkipsKnownOnly(status_id) == status_id = "1" \/ status_id = "2"

\* if status_id == "1" ... elif status_id == "2" ... elif status_id != "3"
Skips(status_id) == status_id = "1" \/ status_id = "2" \/ status_id # "3"

CurrentId == listings[processed_count].id

sync_estate_data ==
    /\ pc = "sync"
    /\ mode = "auto"
    /\ calls' = <<>>
    /\ matched' = 0
    /\ \E data \in FetchResults(CurrentId) :
         IF data.kind # "dict"
         THEN SyncReturn("failed")
         ELSE IF Skips(data.status)
         THEN SyncReturn("skipped")
         ELSE \E a \in AssociationResults(data) :
                /\ estate' = data
                /\ association_data' = a
                /\ pc' = "update"
                /\ UNCHANGED <<http, webflow_data, slug, outcomes, success_count>>
    /\ UNCHANGED <<mode, listings, processed_count, summary, attempted, items, trace,
                   sessions>>

\* manual_post_estate: the same fetches, no status filter
manual_post_estate ==
    /\ pc = "sync"
    /\ mode = "manual"
    /\ calls' = <<>>
    /\ matched' = 0
    /\ \E data \in FetchResults(CurrentId) :
         IF data.kind # "dict"
         THEN SyncReturn("failed")
         ELSE \E a \in AssociationResults(data) :
                /\ estate' = data
                /\ association_data' = a
                /\ pc' = "update"
                /\ UNCHANGED <<http, webflow_data, slug, outcomes, success_count>>
    /\ UNCHANGED <<mode, listings, processed_count, summary, attempted, items, trace,
                   sessions>>

----------------------------------------------------------------------------
(* process_estates *)

NoSummary == [printed |-> FALSE, total |-> 0, successful |-> 0, failed |-> 0]

\* The guard before the loop: an empty collection returns without a summary
process_estates ==
    /\ pc = "start"
    /\ pc' = IF listings = <<>> THEN "done" ELSE "loop"
    /\ UNCHANGED <<mode, listings, processed_count, success_count, summary, outcomes,
                   attempted, estate, association_data, webflow_data, slug, items, http,
                   trace, sessions, calls, matched>>

\* The head of one iteration: count the entry, skip it when it has no id
next_cooperative ==
    /\ pc = "loop"
    /\ processed_count < Len(listings)
    /\ processed_count' = processed_count + 1
    /\ LET estate_id == listings[processed_count + 1].id IN
         IF ~Truthy(estate_id)
         THEN /\ outcomes' = Append(outcomes, "no id")
              /\ UNCHANGED <<pc, attempted>>
         ELSE /\ attempted' = Append(attempted, estate_id)
              /\ pc' = "sync"
              /\ UNCHANGED outcomes
    /\ UNCHANGED <<mode, listings, success_count, summary, estate, association_data,
                   webflow_data, slug, items, http, trace, sessions, calls, matched>>

\* After the loop: the three closing lines of the report
finish ==
    /\ pc = "loop"
    /\ processed_count = Len(listings)
    /\ summary' = [printed |-> TRUE, total |-> Len(listings), successful |-> success_count,
                   failed |-> Len(listings) - success_count]
    /\ pc' = "done"
    /\ UNCHANGED <<mode, listings, processed_count, success_count, outcomes, attempted,
                   estate, association_data, webflow_data, slug, items, http, trace,
                   sessions, calls, matched>>

----------------------------------------------------------------------------
(* Initial states *)

\* Ids of the entries of the fetched collection; Absent: the entry has no id
ListingIds == {Absent, <<"A", " ">>}

RECURSIVE SeqsUpTo(_, _)
SeqsUpTo(S, n) ==
    IF n = 0 THEN {<<>>}
    ELSE LET shorter == SeqsUpTo(S, n - 1)
         IN shorter \cup {Append(q, x) : q \in shorter, x \in S}

Collections == SeqsUpTo({[id |-> i] : i \in ListingIds}, MaxListings)

\* Slugs of the items the collection holds before the run
InitialSlugs == {<<"A", "-">>, <<"b">>}

NoRepeat(q) == \A i, j \in DOMAIN q : i # j => q[i] # q[j]

InitialItems ==
    {[i \in DOMAIN q |-> [id |-> i, slug |-> q[i]]] :
        q \in {r \in SeqsUpTo(InitialSlugs, MaxItems - 1) : NoRepeat(r)}}

NoTrace == [on |-> FALSE, resps |-> <<>>, waits |-> <<>>]

InitCounters ==
    /\ success_count = 0
    /\ summary = NoSummary
    /\ outcomes = <<>>
    /\ attempted = <<>>
    /\ slug = <<>>
    /\ sessions = 0
    /\ calls = <<>>
    /\ matched = 0

\* main after the schema and the estate list were fetched, or
\* main_manual_trigger after the operator typed a non-empty id
Init ==
    /\ InitCounters
    /\ estate = NoEstate
    /\ association_data = EmptyAssociation
    /\ webflow_data = NoData
    /\ items \in InitialItems
    /\ http = Idle
    /\ trace = NoTrace
    /\ \/ /\ mode = "auto"
          /\ pc = "start"
          /\ listings \in Collections
          /\ processed_count = 0
       \/ /\ mode = "manual"
          /\ pc = "sync"
          /\ listings \in {<<[id |-> i]>> : i \in ListingIds \ {Absent}}
          /\ processed_count = 1

Next ==
    \/ process_estates
    \/ next_cooperative
    \/ finish
    \/ sync_estate_data
    \/ manual_post_estate
    \/ update_webflow_item
    \/ find_webflow_item_by_slug
    \/ update_return
    \/ create_webflow_item
    \/ create_return
    \/ Attempt

Spec == Init /\ [][Next]_vars

----------------------------------------------------------------------------
(* One call of make_webflow_request on its own, with its responses and     *)
(* backoff waits recorded                                                   *)

SampleData == prepare_webflow_data(EstateRecord(<<"A", " ">>, "3", TRUE, "dict", "number", "number"),
                                   FetchedAssociation)

InitClient ==
    /\ InitCounters
    /\ estate = NoEstate
    /\ association_data = EmptyAssociation
    /\ mode = "client"
    /\ pc = "client"
    /\ listings = <<>>
    /\ processed_count = 0
    /\ items = <<[id |-> 1, slug |-> <<"b">>]>>
    /\ trace = [on |-> TRUE, resps |-> <<>>, waits |-> <<>>]
    /\ \E m \in Methods, p \in BOOLEAN :
         /\ http = NewCall(m, IF m = "PATCH" THEN 1 ELSE 0, p)
         /\ webflow_data = IF m = "GET" THEN NoData ELSE SampleData

NextClient == Attempt

SpecClient == InitClient /\ [][NextClient]_vars

----------------------------------------------------------------------------
(* prepare_webflow_data on its own, over listings and association records  *)
(* with absent and malformed parts                                          *)

TransformIds == {<<"A", " ">>, <<"b">>, <<>>, Null, Absent, Num}
Groups == {"absent", "null", "dict"}
Scalars == {"absent", "number", "text"}

TransformEstates ==
    {NotEstate(k) : k \in {"none", "empty", "list"}} \cup
    {EstateRecord(id, "3", TRUE, base, living, floor) :
        id \in TransformIds, base \in Groups, living \in Scalars, floor \in Scalars}

TransformAssociations ==
    {EmptyAssociation} \cup
    {AssociationRecord(n, d, f) : n \in {"absent", "name"}, d \in Groups, f \in {"absent", "number"}}

InitTransform ==
    /\ InitCounters
    /\ mode = "transform"
    /\ pc = "transform"
    /\ listings = <<>>
    /\ processed_count = 0
    /\ items = <<>>
    /\ http = Idle
    /\ trace = NoTrace
    /\ \E e \in TransformEstates, a \in TransformAssociations :
         /\ estate = e
         /\ association_data = a
         /\ webflow_data = NoData

Transform ==
    /\ pc = "transform"
    /\ webflow_data' = prepare_webflow_data(estate, association_data)
    /\ pc' = "done"
    /\ UNCHANGED <<mode, listings, processed_count, success_count, summary, outcomes,
                   attempted, estate, association_data, slug, items, http, trace,
                   sessions, calls, matched>>

NextTransform == Transform

SpecTransform == InitTransform /\ [][NextTransform]_vars

\* The automatic run under the scheduling of a sequential program: a step
\* that can be taken is taken
LiveSpec == Spec /\ WF_vars(Next)

----------------------------------------------------------------------------
(* Properties *)

Range(q) == {q[i] : i \in DOMAIN q}
Last(q) == q[Len(q)]
Repeat(x, k) == [i \in 1..k |-> x]
Count(q, x) == Cardinality({i \in DOMAIN q : q[i] = x})

\* The upsert of a record that was built has ended, with the calls it issued
UpsertEnded == mode \in {"auto", "manual"} /\ pc \in {"loop", "done"} /\ calls # <<>>

\* C1: the target collection never holds two items with the same slug.
NoDuplicateSlugs ==
    \A i, j \in DOMAIN items : i # j => items[i].slug # items[j].slug

\* C2: when an item carried the record's slug (case-insensitively) as the upsert
\* began, the upsert issues no create, and once it has ended it has issued an
\* update addressed to that item.
UpdateAndNoCreate ==
    matched # 0 =>
        /\ \A i \in DOMAIN calls : calls[i].method # "POST"
        /\ UpsertEnded => \E i \in DOMAIN calls : calls[i] = Call("PATCH", matched)

\* C3: when no item carried the record's slug as the upsert began, the upsert
\* issues exactly one create call, marked live, and no update call.
OneCreateAndNoUpdate ==
    (UpsertEnded /\ matched = 0) =>
        /\ Cardinality({i \in DOMAIN calls : calls[i].method = "POST" /\ calls[i].live}) = 1
        /\ \A i \in DOMAIN calls : calls[i].method # "PATCH"

\* C4: for every listing that is a structured record the transform returns a
\* TargetRecord, whatever is absent or malformed inside it or in the
\* association record.
TransformNeverAbsent ==
    (mode = "transform" /\ pc = "done" /\ estate.kind = "dict") => ~webflow_data.none

ExhaustedResult == None

OnlyForSaleUpserted ==
    mode = "auto" =>
        /\ pc \in {"update", "lookup", "patch", "create", "post"} => estate.status = "3"
        /\ ~webflow_data.none => estate.status = "3"
        /\ http.st # "idle" => (pc \in {"lookup", "patch", "post"} /\ estate.status = "3")
        /\ (pc = "loop" /\ outcomes # <<>> /\ Last(outcomes) = "skipped") => calls = <<>>

\* C8 witness: a listing was synced, the next one was skipped without a call
SkippedAfterSynced ==
    /\ mode = "auto"
    /\ outcomes = <<"synced", "skipped">>
    /\ calls = <<>>

\* C9: the failure total of the final report does not include the listings
\* skipped by the status filter.
SkippedNotCountedFailed ==
    summary.printed => summary.failed <= Len(listings) - Count(outcomes, "skipped")

\* The ids of the entries that have one, in collection order
IdsInOrder ==
    LET withId == SelectSeq(listings, LAMBDA c : Truthy(c.id))
    IN [i \in DOMAIN withId |-> withId[i].id]

SessionsClosed ==
    mode \in {"auto", "manual"} =>
        /\ sessions \in {0, 1}
        /\ pc \in {"lookup", "patch", "post"} => sessions = 1
        /\ pc \in {"start", "loop", "sync", "update", "create", "done"} => sessions = 0

\* C11 witness: lookup, failed update and failed create all ran for a listing,
\* and its sync has ended
AllOperationsFailedAndClosed ==
    /\ pc \in {"loop", "done"}
    /\ outcomes # <<>>
    /\ Last(outcomes) = "failed"
    /\ \E i \in DOMAIN calls : calls[i].method = "PATCH"
    /\ \E i \in DOMAIN calls : calls[i].method = "POST"
    /\ sessions = 0

----------------------------------------------------------------------------
(* The calls made without make_webflow_request: requests.post / requests.get *)
(* followed by raise_for_status, inside one try                              *)

DirectFetches == {"fetch_estate_list", "fetch_housing_cooperative",
                  "fetch_association_details", "fetch_webflow_collection_schema"}

\* fetch_estate_list posts, the other three get
DirectMethod(f) == IF f = "fetch_estate_list" THEN "POST" ELSE "GET"

\* What requests.get / requests.post does: a status code, or an exception
DirectOutcomes == {"200", "201", "404", "429", "500", "Timeout", "ConnectionError"}

\* raise_for_status passes every 2xx; anything else ends in "return None"
DirectResult(o) == IF o \in {"200", "201"} THEN Json(<<>>) ELSE None

InitFetch ==
    /\ InitCounters
    /\ estate = NoEstate
    /\ association_data = EmptyAssociation
    /\ webflow_data = NoData
    /\ mode = "fetch"
    /\ listings = <<>>
    /\ processed_count = 0
    /\ items = <<>>
    /\ trace = [on |-> TRUE, resps |-> <<>>, waits |-> <<>>]
    /\ \E f \in DirectFetches :
         /\ pc = f
         /\ http = [NewCall(DirectMethod(f), 0, FALSE) EXCEPT !.st = "direct"]

\* The whole function: one request, its result or None
DirectFetch ==
    /\ pc \in DirectFetches
    /\ http.st = "direct"
    /\ \E o \in DirectOutcomes :
         /\ http' = [http EXCEPT !.attempt = 1, !.st = "returned", !.result = DirectResult(o)]
         /\ trace' = [trace EXCEPT !.resps = Append(@, o)]
    /\ pc' = "done"
    /\ UNCHANGED <<mode, listings, processed_count, success_count, summary, outcomes,
                   attempted, estate, association_data, webflow_data, slug, items,
                   sessions, calls, matched>>

\* Every outbound call of the program, each on its own
InitCalls == InitClient \/ InitFetch

NextCalls == Attempt \/ DirectFetch

SpecCalls == InitCalls /\ [][NextCalls]_vars

\* A failure the claim calls transient, or a 429
Retriable == {"429", "500", "Timeout", "ConnectionError"}

-----------------------------------------------------------------------------
(* find_highest_bid on its own, over short lists of bids                    *)

MaxBids == 3

\* The value under a bid's 'amount' key: missing key, null, a number, or a
\* text that float() rejects
NoAmount == [kind |-> "absent", n |-> 0]
Amounts ==
    {NoAmount, [kind |-> "null", n |-> 0], [kind |-> "text", n |-> 0]} \cup
    {[kind |-> "num", n |-> k] : k \in {-1, 0, 1}}

\* The entries of the list: dicts, and one entry that is not a dict
Bids == {[dict |-> TRUE, amount |-> a] : a \in Amounts} \cup
        {[dict |-> FALSE, amount |-> NoAmount]}

BidLists ==
    {[list |-> FALSE, entries |-> <<>>]} \cup
    {[list |-> TRUE, entries |-> q] : q \in SeqsUpTo(Bids, MaxBids)}

NoBid == [none |-> TRUE, at |-> 0]
Bid(i) == [none |-> FALSE, at |-> i]

\* isinstance(bid, dict) and 'amount' in bid
ValidBids(q) == {i \in DOMAIN q : q[i].dict /\ q[i].amount.kind # "absent"}

\* float(x['amount']) if x.get('amount') is not None else 0
BidKey(b) == IF b.amount.kind = "null" THEN 0 ELSE b.amount.n

\* max() returns the first of the items with the largest key
Least(S) == CHOOSE i \in S : \A j \in S : i <= j

FirstMax(q, among) ==
    Least({i \in among : \A j \in among : BidKey(q[j]) <= BidKey(q[i])})

\* highest_bid.get('amount') as a condition
AmountTruthy(b) == b.amount.kind = "num" /\ b.amount.n # 0

find_highest_bid(bids) ==
    IF ~bids.list \/ bids.entries = <<>> THEN NoBid
    ELSE LET q == bids.entries
             valid_bids == ValidBids(q)
         IN  IF valid_bids = {} THEN NoBid
             ELSE IF \E i \in valid_bids : q[i].amount.kind = "text" THEN NoBid
             ELSE LET highest_bid == FirstMax(q, valid_bids)
                  IN  IF AmountTruthy(q[highest_bid]) THEN Bid(highest_bid) ELSE NoBid

InitBids ==
    /\ InitCounters
    /\ mode = "bids"
    /\ pc = "bids"
    /\ listings = <<>>
    /\ processed_count = 0
    /\ items = <<>>
    /\ http = Idle
    /\ trace = NoTrace
    /\ association_data = EmptyAssociation
    /\ webflow_data = NoBid
    /\ \E b \in BidLists : estate = [bids |-> b]

HighestBid ==
    /\ pc = "bids"
    /\ webflow_data' = find_highest_bid(estate.bids)
    /\ pc' = "done"
    /\ UNCHANGED <<mode, listings, processed_count, success_count, summary, outcomes,
                   attempted, estate, association_data, slug, items, http, trace,
                   sessions, calls, matched>>

NextBids == HighestBid

SpecBids == InitBids /\ [][NextBids]_vars

\* The entries with a present numeric amount
NumericBids(q) == {i \in DOMAIN q : q[i].dict /\ q[i].amount.kind = "num"}

\* The first of the numeric entries with the largest amount
Winner(q) ==
    Least({i \in NumericBids(q) : \A j \in NumericBids(q) : q[j].amount.n <= q[i].amount.n})

\* C13: for every list of bids the result is the first entry with the largest
\* amount among the entries with a present numeric amount, and None when
\* there is no such entry or the winning amount is zero.
HighestNumericBidReturned ==
    (mode = "bids" /\ pc = "done") =>
        LET q == estate.bids.entries
        IN  IF NumericBids(q) = {} THEN webflow_data = NoBid
            ELSE IF q[Winner(q)].amount.n = 0 THEN webflow_data = NoBid
            ELSE webflow_data = Bid(Winner(q))

-----------------------------------------------------------------------------
(* sanitize_text(text, preserve_linebreaks=False) on its own, over short    *)
(* texts with line feeds, carriage returns and spaces                       *)

MaxLen == 5

LineBreaks == {"\n", "\r"}
TextChars == {"a", " "} \cup LineBreaks
Texts == SeqsUpTo(TextChars, MaxLen)

\* str.replace(old, new): the occurrences of old, left to right and without
\* overlap, in one pass
RECURSIVE Replace(_, _, _)
Replace(text, old, new) ==
    IF Len(text) < Len(old) THEN text
    ELSE IF SubSeq(text, 1, Len(old)) = old
         THEN new \o Replace(SubSeq(text, Len(old) + 1, Len(text)), old, new)
         ELSE <<Head(text)>> \o Replace(Tail(text), old, new)

sanitize_text(text) ==
    IF text = <<>> THEN <<>>
    ELSE Strip(Replace(Replace(Replace(text, <<"\n">>, <<" ">>), <<"\r">>, <<>>),
                       <<" ", " ">>, <<" ">>))

InitText ==
    /\ InitCounters
    /\ mode = "text"
    /\ pc = "text"
    /\ listings = <<>>
    /\ processed_count = 0
    /\ items = <<>>
    /\ http = Idle
    /\ trace = NoTrace
    /\ association_data = EmptyAssociation
    /\ webflow_data = <<>>
    /\ \E t \in Texts : estate = [short_description |-> t]

Sanitize ==
    /\ pc = "text"
    /\ webflow_data' = sanitize_text(estate.short_description)
    /\ pc' = "done"
    /\ UNCHANGED <<mode, listings, processed_count, success_count, summary, outcomes,
                   attempted, estate, association_data, slug, items, http, trace,
                   sessions, calls, matched>>

NextText == Sanitize

SpecText == InitText /\ [][NextText]_vars

\* The texts made of one word, a run of line breaks and one word
IsWord(w) == w # <<>> /\ \A i \in DOMAIN w : w[i] = "a"
IsBreakRun(r) == r # <<>> /\ \A i \in DOMAIN r : r[i] \in LineBreaks

\* C14: the flattened text holds no line break, a run of line breaks between
\* two words has become exactly one space, and the text has no leading or
\* trailing whitespace.
BreaksFlattened ==
    (mode = "text" /\ pc = "done") =>
        LET text == estate.short_description
            out == webflow_data
        IN  /\ \A i \in DOMAIN out : out[i] \notin LineBreaks
            /\ out # <<>> => Head(out) # " " /\ Last(out) # " "
            /\ \A i \in 1..Len(text), j \in 1..Len(text) :
                 (/\ i < j
                  /\ IsWord(SubSeq(text, 1, i))
                  /\ IsBreakRun(SubSeq(text, i + 1, j - 1))
                  /\ IsWord(SubSeq(text, j, Len(text))))
                 => out = SubSeq(text, 1, i) \o <<" ">> \o SubSeq(text, j, Len(text))

-----------------------------------------------------------------------------
(* The lookup of update_webflow_item on its own, over collections of up to  *)
(* one page of items and a few more                                         *)

MaxOver == 1

\* The numbers of items the target collection holds
CollectionSizes == {1, limit - 1} \cup (limit..(limit + MaxOver))

LookupEstate == EstateRecord(<<"b">>, "3", TRUE, "dict", "number", "number")

\* A collection of n items whose k-th item carries the listing's slug
CollectionWith(n, k) ==
    [i \in 1..n |-> [id |-> i, slug |-> IF i = k THEN <<"b">> ELSE <<"a">>]]

InitLookup ==
    /\ InitCounters
    /\ mode = "lookup"
    /\ pc = "update"
    /\ listings = <<>>
    /\ processed_count = 0
    /\ http = Idle
    /\ trace = NoTrace
    /\ estate = LookupEstate
    /\ association_data = FetchedAssociation
    /\ webflow_data = NoData
    /\ \E n \in CollectionSizes : \E k \in 1..n : items = CollectionWith(n, k)

NextLookup ==
    \/ update_webflow_item
    \/ Attempt
    \/ find_webflow_item_by_slug

SpecLookup == InitLookup /\ [][NextLookup]_vars

\* C15: a lookup whose request was answered finds the existing item with the
\* record's slug, whatever its position and however many items there are.
ExistingItemFound ==
    (mode = "lookup" /\ pc = "lookup" /\ http.st = "returned" /\ ~http.result.none) =>
        (FindId(items, slug) # 0 => FoundItem(http.result, slug) = FindId(items, slug))

-----------------------------------------------------------------------------
(* The association helper on the empty record *)

\* An association record that carries no name, descriptions or transfer fee
BareAssociation == AssociationRecord("absent", "absent", "absent")

\* C16: for an absent or empty association record the helper returns, without
\* failing, the record of "N/A" defaults, its transfer fee formatted as the
\* populated path formats a record without transfer fee; the record built
\* from a listing that is well formed carries these values.
DefaultAssociationRecord ==
    (mode = "transform" /\ pc = "done" /\ association_data.kind = "empty") =>
        LET d == get_details_from_association_data(association_data)
            populated == AssociationDetails(BareAssociation)
        IN  /\ ~d.raised
            /\ d.name = "N/A"
            /\ d.parking = "N/A"
            /\ d.transfer_fee = populated.transfer_fee
            /\ ~prepare_webflow_data(estate, BareAssociation).none =>
                   webflow_data = prepare_webflow_data(estate, BareAssociation)

-----------------------------------------------------------------------------
(* The wait after a 429 *)

-----------------------------------------------------------------------------
(* The create that follows the lookup *)

\* C18: the upsert of a record that was built goes on to create_webflow_item,
\* which sends the POST, only from a lookup whose item-list request was
\* answered and whose scan found no item with the slug; never from a lookup
\* whose request failed, and never after an item was found.
CreateOnlyAfterEmptyLookup ==
    [][/\ (pc = "lookup" /\ pc' = "create") =>
            (~http.result.none /\ FoundItem(http.result, slug) = 0)
       /\ (pc = "patch" /\ pc' = "create") => FALSE]_vars

-----------------------------------------------------------------------------
(* The answers with a 2xx status *)

\* C19: an answer with any 2xx status ends the call on that attempt with the
\* parsed body as its result, so a POST or PATCH the server accepted is not
\* sent again.
AcceptedEndsCall ==
    mode = "client" =>
        /\ \A i \in DOMAIN trace.resps :
             trace.resps[i] \in Accepted =>
                 /\ i = Len(trace.resps)
                 /\ http.st = "returned"
                 /\ ~http.result.none
        /\ http.method \in {"POST", "PATCH"} =>
             Cardinality({i \in DOMAIN trace.resps : trace.resps[i] \in Accepted}) <= 1

-----------------------------------------------------------------------------
(* The URL of the attempts *)

\* C20: every attempt of a call requests the URL of the first attempt: for a
\* GET with query parameters the base URL with the parameters appended once,
\* for any other call the base URL.
SameUrlOnEveryAttempt ==
    (mode = "client" /\ http.attempt >= 1) =>
        http.q = IF http.method = "GET" /\ http.params THEN 1 ELSE 0

-----------------------------------------------------------------------------
(* The slug of the lookup and the slug of the record *)

\* C21: for every listing, one without estateId included, the slug the upsert
\* looks up equals the slug of the record it sends in the update or create.
LookupSlugIsRecordSlug ==
    (mode \in {"auto", "manual"} /\ pc \in {"lookup", "patch", "post"}) =>
        slug = webflow_data.slug

====
